---- MODULE Spec2Model ----
(***************************************************************************)
(* Model of src/main.ts: the presence relay's connection registry          *)
(* (users), its per-connection rate limiter, the heartbeat timer and the   *)
(* room-scoped fan-out of userJoined / userLeft / userList messages.       *)
(*                                                                         *)
(* One action per event handler of the source: the upgrade of a request,   *)
(* socket.onopen, socket.onmessage, socket.onclose (preceded by onerror    *)
(* when the transport failed), the setInterval callback of setupHeartbeat, *)
(* and the passage of time between events.  Handlers run to completion     *)
(* (single-threaded event loop), so each is one atomic step.               *)
(***************************************************************************)
EXTENDS Integers, Sequences, FiniteSets

VARIABLES
    users,       \* the Map of main.ts:1, as its entries in insertion order
    readyState,  \* socket.readyState of each connection's socket
    closeCode,   \* what socket.close() was first called with, per socket
    now,         \* Date.now()
    nextTick,    \* when the setInterval callback is next due
    out,         \* the sends attempted-and-accepted by the last handler, in order
    ev,          \* the last event: handler, connection, frame, outcome
    probe,       \* per socket: fate of the PING most recently sent to it
    arrivals,    \* per socket: arrival times of its most recent inbound frames
                 \* (kept by the specifications that observe the frame rate)
    pings,       \* per socket: how many PINGs were sent to it
    lefts        \* per connection: how many times its userLeft was fanned out

vars ==
    <<users, readyState, closeCode, now, nextTick, out, ev, probe, arrivals,
      pings, lefts>>

----------------------------------------------------------------------------
\* Program constants (main.ts:3-8)

MAX_NAME_LENGTH == 50
MAX_ROOM_LENGTH == 50
PING_INTERVAL == 45000
PONG_TIMEOUT == 10000
RATE_LIMIT_WINDOW == 10000
MAX_MESSAGES_PER_WINDOW == 20

----------------------------------------------------------------------------
\* Bounds of the model

\* connections accepted in one behaviour; ids are numbered in accept order
MaxConns == 3
\* index of the last instant Spec observes
MaxBeat == 4
\* frames counted at once by the registry (the sum of messageCount over its
\* entries) under Spec, SpecRoom, SpecFrames, SpecFault, SpecLate and SpecBeat
MaxFrames == 3
\* frames counted at once by the registry under SpecTouch and SpecDrain
MaxTouch == 2
\* PONGs counted at once by the registry under SpecPing
MaxPongs == 1
\* frames the connection of SpecRate sends beyond the rate limit in a window
MaxOver == 2
\* index of the last instant SpecRate observes
MaxInstant == 2

Ids == 1..MaxConns
\* connections accepted in one behaviour of the specifications that run the
\* clock, and of SpecFrames and SpecLate
MaxPeers == 2
Peers == 1..MaxPeers

\* The instants Spec observes: 0, and then for every tick in turn the tick
\* itself, the last instant at which a PONG is within PONG_TIMEOUT of it and
\* the first instant at which it is late (0, 45000, 55000, 55001, 90000, ...).
BeatTimes ==
    { IF i = 0 THEN 0
      ELSE ((i + 2) \div 3) * PING_INTERVAL
              + (IF (i + 2) % 3 = 0 THEN 0 ELSE PONG_TIMEOUT + ((i + 2) % 3) - 1)
      : i \in 0..MaxBeat }

\* ticks SpecDrain observes, and the instants of the specifications that
\* go from tick to tick: the ticks themselves
MaxTicks == 3
Rounds(n) == { k * PING_INTERVAL : k \in 0..n }
TickTimes == Rounds(MaxTicks)

\* The instants SpecRate observes: 0, and then by turns the last instant of a
\* rate window that starts at the previous one and the first instant after it
\* (0, 10000, 10001, 20001, 20002, ...).
RateTimes ==
    { ((i + 1) \div 2) * (RATE_LIMIT_WINDOW + 1) - (i % 2) : i \in 0..MaxInstant }

----------------------------------------------------------------------------
\* JavaScript values of the fields name and room: null, undefined, a number,
\* or a string (its text and its length).

Null == [t |-> "null", txt |-> "", len |-> 0]
Undefined == [t |-> "undefined", txt |-> "", len |-> 0]
Num == [t |-> "number", txt |-> "7", len |-> 0]
Str(txt, len) == [t |-> "string", txt |-> txt, len |-> len]

BadNames == { Undefined, Num, Str("", 0), Str("N", MAX_NAME_LENGTH + 1) }
BadRooms == { Undefined, Num, Str("", 0), Str("Q", MAX_ROOM_LENGTH + 1) }

\* Inbound frames: text that is not JSON, the JSON text null, and objects.
Unparseable == [k |-> "garbage", type |-> "", name |-> Undefined, room |-> Undefined]
JsonNull == [k |-> "null", type |-> "", name |-> Undefined, room |-> Undefined]
Obj(type, name, room) == [k |-> "object", type |-> type, name |-> name, room |-> room]
Pong == Obj("PONG", Undefined, Undefined)
Other == Obj("CHAT", Undefined, Undefined)

\* JOIN frames: two valid ones (shortest and longest fields, two rooms) and
\* one for each way a field can be invalid.
Alice == Obj("JOIN", Str("a", 1), Str("r", 1))
Longest == Obj("JOIN", Str("n", MAX_NAME_LENGTH), Str("q", MAX_ROOM_LENGTH))

JoinFrames ==
    { Alice, Longest }
        \cup { Obj("JOIN", n, Str("r", 1)) : n \in BadNames }
        \cup { Obj("JOIN", Str("a", 1), r) : r \in BadRooms }
        \cup { Obj("JOIN", Undefined, Undefined) }

Frames == { Unparseable, JsonNull, Pong, Other } \cup JoinFrames

\* The frames of the specifications in which the shape of a frame is not
\* the point: under the clock, beyond the rate limit, among rooms, over a
\* failing transport.
BeatFrames == { Pong, Alice }
RateFrames == { Unparseable, Pong, Alice }
RoomFrames == { Pong, Alice, Longest, Obj("JOIN", Str("a", 1), Str("", 0)) }
FaultFrames == { Alice, Longest }

----------------------------------------------------------------------------
\* The registry: users.get, users.set, users.delete, iteration order

Has(id) == \E i \in 1..Len(users) : users[i].id = id

Get(id) == users[CHOOSE i \in 1..Len(users) : users[i].id = id]

\* users.set(id, u): replaces in place, or appends a new key
SetUser_Append(reg, u) == Append(reg, u)

SetUser(reg, u) ==
    IF \E i \in 1..Len(reg) : reg[i].id = u.id
    THEN [i \in 1..Len(reg) |-> IF reg[i].id = u.id THEN u ELSE reg[i]]
    ELSE Append(reg, u)

DeleteUser_Kept(reg, id) == reg

DeleteUser(reg, id) == SelectSeq(reg, LAMBDA u : u.id # id)

RegIds == { users[i].id : i \in 1..Len(users) }

\* The sets of sockets whose send raises during one handler of connection
\* id: in a loop of sends that stops at the first raise only the first
\* raising socket matters, and the handlers send to id itself (the roster)
\* or to open sockets of the registry.
Faults(id) ==
    { {} } \cup { {r} : r \in { r \in RegIds \cup {id} : readyState[r] \in {"CONNECTING", "OPEN"} } }

\* socket.onopen's initial entry (main.ts:88-97)
NewUser(id, t) ==
    [id |-> id, name |-> Null, room |-> Null, awaitingPong |-> FALSE,
     lastPing |-> t, messageCount |-> 0, windowStart |-> t]

----------------------------------------------------------------------------
\* Sending.  socket.send may raise; `bad` is the set of sockets whose send
\* raises during the handler being run.

\* a loop of sends without try/catch: the sends before the first that raises
FirstBad(rcpts, bad) ==
    IF \E i \in 1..Len(rcpts) : rcpts[i] \in bad
    THEN CHOOSE i \in 1..Len(rcpts) :
            /\ rcpts[i] \in bad
            /\ \A j \in 1..(i - 1) : rcpts[j] \notin bad
    ELSE 0

Reached(rcpts, bad) ==
    IF FirstBad(rcpts, bad) = 0 THEN rcpts
    ELSE SubSeq(rcpts, 1, FirstBad(rcpts, bad) - 1)

Raiser(rcpts, bad) ==
    IF FirstBad(rcpts, bad) = 0 THEN 0 ELSE rcpts[FirstBad(rcpts, bad)]

IdsOf(reg) == [i \in 1..Len(reg) |-> reg[i].id]

Entry(u) == [id |-> u.id, name |-> u.name, room |-> u.room]

JoinedMsg(to, user) == [to |-> to, type |-> "userJoined", user |-> Entry(user)]
LeftMsg(to, id) == [to |-> to, type |-> "userLeft", id |-> id]
PingMsg(to) == [to |-> to, type |-> "PING"]
ListMsg(to, list) == [to |-> to, type |-> "userList", users |-> list]

\* a fan-out that ignores rooms (the global-broadcast variant)
JoinedRcpts_AnyRoom(reg, user) ==
    IdsOf(SelectSeq(reg, LAMBDA u : readyState[u.id] = "OPEN" /\ u.id # user.id))

\* a fan-out that takes a socket for open until its close event
JoinedRcpts_Unclosed(reg, user) ==
    IdsOf(SelectSeq(reg, LAMBDA u :
        /\ readyState[u.id] \in {"OPEN", "CLOSING"}
        /\ u.id # user.id /\ u.room = user.room))

\* the recipients the loop of broadcastUserJoined visits (main.ts:18-19)
JoinedRcpts(reg, user) ==
    IdsOf(SelectSeq(reg, LAMBDA u :
        readyState[u.id] = "OPEN" /\ u.id # user.id /\ u.room = user.room))

\* broadcastUserJoined (main.ts:12-23): what it sent, and whose send raised
broadcastUserJoined(reg, user, bad) ==
    LET rcpts == Reached(JoinedRcpts(reg, user), bad)
    IN  [sent |-> [i \in 1..Len(rcpts) |-> JoinedMsg(rcpts[i], user)],
         raiser |-> Raiser(JoinedRcpts(reg, user), bad)]

\* the recipients the loop of broadcastUserLeft visits (main.ts:28-29);
\* rs is readyState at the time of the call
LeftRcpts(reg, user, rs) ==
    IdsOf(SelectSeq(reg, LAMBDA u : rs[u.id] = "OPEN" /\ u.room = user.room))

\* broadcastUserLeft (main.ts:25-33)
broadcastUserLeft(reg, user, rs, bad) ==
    LET rcpts == Reached(LeftRcpts(reg, user, rs), bad)
    IN  [sent |-> [i \in 1..Len(rcpts) |-> LeftMsg(rcpts[i], user.id)],
         raiser |-> Raiser(LeftRcpts(reg, user, rs), bad)]

\* JavaScript truthiness of a name/room value
Truthy_Always(v) == TRUE

Truthy(v) == (v.t = "string" /\ v.len > 0) \/ v.t = "number"

\* the list broadcastUserList builds (main.ts:36-38)
UserList(reg) ==
    LET joined == SelectSeq(reg, LAMBDA u : Truthy(u.room))
    IN  [i \in 1..Len(joined) |-> Entry(joined[i])]

\* broadcastUserList (main.ts:35-47): the send is inside try/catch
broadcastUserList(reg, id, bad) ==
    IF id \in bad THEN <<>> ELSE <<ListMsg(id, UserList(reg))>>

----------------------------------------------------------------------------
\* socket.close(code): a no-op unless the socket is CONNECTING or OPEN

CloseState(rs, id) ==
    IF rs[id] \in {"CONNECTING", "OPEN"} THEN [rs EXCEPT ![id] = "CLOSING"] ELSE rs

CloseCodes(cc, rs, id, code) ==
    IF rs[id] \in {"CONNECTING", "OPEN"} THEN [cc EXCEPT ![id] = code] ELSE cc

----------------------------------------------------------------------------
\* The rate limiter of socket.onmessage (main.ts:106-112)

\* a window that already ends at windowStart + RATE_LIMIT_WINDOW
WindowExpired_AtBoundary(user, t) == t - user.windowStart >= RATE_LIMIT_WINDOW

WindowExpired(user, t) == t - user.windowStart > RATE_LIMIT_WINDOW

RateLimit(user, t) ==
    LET u1 == IF WindowExpired(user, t)
              THEN [user EXCEPT !.messageCount = 0, !.windowStart = t]
              ELSE user
    IN  [u1 EXCEPT !.messageCount = u1.messageCount + 1]

\* a limiter that lets one frame more through
Rejected_OneLate(user) == user.messageCount > MAX_MESSAGES_PER_WINDOW + 1

\* main.ts:113
Rejected(user) == user.messageCount > MAX_MESSAGES_PER_WINDOW

\* a validity test whose room bound is off by one
ValidJoin_LongRoom(newName, newRoom) ==
    /\ newName.t = "string"
    /\ newName.len > 0
    /\ newName.len <= MAX_NAME_LENGTH
    /\ newRoom.t = "string"
    /\ newRoom.len > 0
    /\ newRoom.len <= MAX_ROOM_LENGTH + 1

\* the JOIN validity test (main.ts:131-138)
ValidJoin(newName, newRoom) ==
    /\ newName.t = "string"
    /\ newName.len > 0
    /\ newName.len <= MAX_NAME_LENGTH
    /\ newRoom.t = "string"
    /\ newRoom.len > 0
    /\ newRoom.len <= MAX_ROOM_LENGTH

----------------------------------------------------------------------------
\* Observation of the run

NoFrame == [k |-> "none", type |-> "", name |-> Undefined, room |-> Undefined]

\* raised: the sockets whose send raised during the handler
Event(op, id, frame, res, raised) ==
    [op |-> op, id |-> id, frame |-> frame, res |-> res, raised |-> raised]

\* the arrival times of the last MAX_MESSAGES_PER_WINDOW + 1 frames
Logged(log, t) ==
    LET l == Append(log, t)
    IN  IF Len(l) > MAX_MESSAGES_PER_WINDOW + 1 THEN Tail(l) ELSE l

----------------------------------------------------------------------------
Init ==
    /\ users = <<>>
    /\ readyState = [i \in Ids |-> "NONE"]
    /\ closeCode = [i \in Ids |-> "none"]
    /\ now = 0
    /\ nextTick = PING_INTERVAL
    /\ out = <<>>
    /\ ev = Event("init", 0, NoFrame, "", {})
    /\ probe = [i \in Ids |-> "none"]
    /\ arrivals = [i \in Ids |-> <<>>]
    /\ pings = [i \in Ids |-> 0]
    /\ lefts = [i \in Ids |-> 0]

\* Deno.serve's handler upgrades a request (main.ts:83-84): a fresh id and a
\* socket that is not open yet.
Upgrade(id) ==
    /\ readyState[id] = "NONE"
    /\ \A j \in 1..(id - 1) : readyState[j] # "NONE"
    /\ readyState' = [readyState EXCEPT ![id] = "CONNECTING"]
    /\ out' = <<>>
    /\ ev' = Event("upgrade", id, NoFrame, "", {})
    /\ UNCHANGED <<users, closeCode, now, nextTick, probe, arrivals, pings, lefts>>

\* socket.onopen (main.ts:86-100)
OnOpen(id, bad) ==
    /\ readyState[id] = "CONNECTING"
    /\ readyState' = [readyState EXCEPT ![id] = "OPEN"]
    /\ users' = SetUser(users, NewUser(id, now))
    /\ out' = broadcastUserList(users', id, bad)
    /\ ev' = Event("open", id, NoFrame, "", {id} \cap bad)
    /\ UNCHANGED <<closeCode, now, nextTick, probe, arrivals, pings, lefts>>

\* a dispatch in which a valid JOIN also counts as a sign of life
Dispatch_JoinRearms(user, frame) ==
    IF frame.type = "JOIN"
    THEN IF ValidJoin(frame.name, frame.room)
         THEN [user EXCEPT !.name = frame.name, !.room = frame.room,
                           !.awaitingPong = FALSE]
         ELSE user
    ELSE IF frame.type = "PONG"
         THEN [user EXCEPT !.awaitingPong = FALSE]
         ELSE user

\* a dispatch that stores the name of a JOIN as soon as the name is valid
Dispatch_NameFirst(user, frame) ==
    IF frame.type = "JOIN"
    THEN IF ValidJoin(frame.name, frame.room)
         THEN [user EXCEPT !.name = frame.name, !.room = frame.room]
         ELSE IF ValidJoin(frame.name, Str("r", 1))
              THEN [user EXCEPT !.name = frame.name]
              ELSE user
    ELSE IF frame.type = "PONG"
         THEN [user EXCEPT !.awaitingPong = FALSE]
         ELSE user

\* the dispatch of an admitted, parsed frame on the entry (main.ts:127-147)
Dispatch(user, frame) ==
    IF frame.type = "JOIN"
    THEN IF ValidJoin(frame.name, frame.room)
         THEN [user EXCEPT !.name = frame.name, !.room = frame.room]
         ELSE user
    ELSE IF frame.type = "PONG"
         THEN [user EXCEPT !.awaitingPong = FALSE]
         ELSE user

\* whether the dispatch reaches broadcastUserJoined (main.ts:141)
Announces(frame) ==
    frame.k = "object" /\ frame.type = "JOIN" /\ ValidJoin(frame.name, frame.room)

\* how the handling of an admitted frame ends
Outcome(frame) ==
    IF frame.k = "garbage" THEN "parse_error"
    ELSE IF frame.k = "null" THEN "type_error"
    ELSE IF frame.type = "JOIN"
         THEN IF ValidJoin(frame.name, frame.room) THEN "joined" ELSE "invalid_join"
    ELSE IF frame.type = "PONG" THEN "pong"
    ELSE "ignored"

\* the fate of the latest PING when a frame arrives: a PONG within
\* PONG_TIMEOUT of it answers it, a later PONG answers it late
Probed(id, frame) ==
    IF /\ Has(id)
       /\ frame.k = "object" /\ frame.type = "PONG"
       /\ probe[id] \in {"sent", "unsent"}
    THEN [probe EXCEPT ![id] =
             IF now - Get(id).lastPing <= PONG_TIMEOUT THEN "answered" ELSE "late"]
    ELSE probe

\* the body of socket.onmessage (main.ts:102-148)
onmessage(id, frame, bad) ==
    /\ probe' = Probed(id, frame)
    /\ UNCHANGED <<now, nextTick, pings, lefts>>
    /\ IF ~Has(id)
       THEN /\ out' = <<>>
            /\ ev' = Event("message", id, frame, "unregistered", {})
            /\ UNCHANGED <<users, readyState, closeCode>>
       ELSE LET user == RateLimit(Get(id), now)
            IN  IF Rejected(user)
                THEN /\ users' = SetUser(users, user)
                     /\ readyState' = CloseState(readyState, id)
                     /\ closeCode' = CloseCodes(closeCode, readyState, id, "1008")
                     /\ out' = <<>>
                     /\ ev' = Event("message", id, frame, "rejected", {})
                ELSE IF frame.k # "object"
                THEN /\ users' = SetUser(users, user)
                     /\ out' = <<>>
                     /\ ev' = Event("message", id, frame, Outcome(frame), {})
                     /\ UNCHANGED <<readyState, closeCode>>
                ELSE LET user2 == Dispatch(user, frame)
                         reg == SetUser(users, user2)
                         b == broadcastUserJoined(reg, user2, bad)
                     IN  /\ users' = reg
                         /\ out' = IF Announces(frame) THEN b.sent ELSE <<>>
                         /\ ev' = Event("message", id, frame, Outcome(frame),
                                        IF Announces(frame) /\ b.raiser # 0
                                        THEN {b.raiser} ELSE {})
                         /\ UNCHANGED <<readyState, closeCode>>

\* socket.onmessage as the runtime calls it: frames are delivered while the
\* socket is OPEN and, after socket.close(), until its close event.
OnMessage(id, frame, bad) ==
    /\ readyState[id] \in {"OPEN", "CLOSING"}
    /\ onmessage(id, frame, bad)

\* socket.onmessage called for a socket whose close event has fired (a
\* frame dispatched late): what the guard of main.ts:103-104 is for
LateMessage(id, frame) ==
    /\ readyState[id] = "CLOSED"
    /\ onmessage(id, frame, {})

\* the body of socket.onclose (main.ts:154-161); rs is readyState when it
\* runs.  broadcastUserLeft runs on the registry as it is at main.ts:158,
\* before users.delete at main.ts:160; the event records whether the closing
\* connection was listed in it.
onclose(id, rs, bad) ==
    IF Has(id)
    THEN LET reg == users
             b == broadcastUserLeft(reg, Get(id), rs, bad)
         IN  /\ out' = b.sent
             /\ users' = IF b.raiser = 0 THEN DeleteUser(users, id) ELSE users
             /\ lefts' = [lefts EXCEPT ![id] = @ + 1]
             /\ ev' = Event("close", id, NoFrame,
                            IF \E i \in 1..Len(reg) : reg[i].id = id
                            THEN "listed" ELSE "delisted",
                            IF b.raiser = 0 THEN {} ELSE {b.raiser})
    ELSE /\ out' = <<>>
         /\ users' = DeleteUser(users, id)
         /\ lefts' = lefts
         /\ ev' = Event("close", id, NoFrame, "absent", {})

\* socket.onclose as the runtime calls it; when the transport failed,
\* socket.onerror (main.ts:150-152) ran before it and only logged.  The
\* event fires once per socket, whether the peer closed, the transport
\* failed or the server called socket.close(); the socket is CLOSED by then.
OnClose(id, bad) ==
    /\ readyState[id] \in {"CONNECTING", "OPEN", "CLOSING"}
    /\ readyState' = [readyState EXCEPT ![id] = "CLOSED"]
    /\ onclose(id, readyState', bad)
    /\ UNCHANGED <<closeCode, now, nextTick, probe, arrivals, pings>>

\* socket.onclose called a second time for a socket already CLOSED
CloseAgain(id) ==
    /\ readyState[id] = "CLOSED"
    /\ onclose(id, readyState, {})
    /\ UNCHANGED <<readyState, closeCode, now, nextTick, probe, arrivals, pings>>

\* the tick's verdict on one entry (main.ts:57-58)
Live(user) == readyState[user.id] = "OPEN"
TimedOut_Stale(user, t) ==
    Live(user) /\ t - user.lastPing > PONG_TIMEOUT

TimedOut_Slack(user, t) ==
    Live(user) /\ user.awaitingPong /\ t - user.lastPing > PING_INTERVAL

TimedOut(user, t) ==
    Live(user) /\ user.awaitingPong /\ t - user.lastPing > PONG_TIMEOUT
Pinged(user, t) == Live(user) /\ ~TimedOut(user, t)

\* the tick's effect on one entry (main.ts:65-66)
Beat_Unstamped(user, t) ==
    IF Pinged(user, t)
    THEN [user EXCEPT !.awaitingPong = TRUE]
    ELSE user

Beat(user, t) ==
    IF Pinged(user, t)
    THEN [user EXCEPT !.awaitingPong = TRUE, !.lastPing = t]
    ELSE user

\* the setInterval callback of setupHeartbeat (main.ts:53-73); the PING
\* send is inside try/catch
Tick(bad) ==
    /\ now = nextTick
    /\ nextTick' = nextTick + PING_INTERVAL
    /\ users' = [i \in 1..Len(users) |-> Beat(users[i], now)]
    /\ readyState' =
          [i \in Ids |->
              IF \E k \in 1..Len(users) : users[k].id = i /\ TimedOut(users[k], now)
              THEN "CLOSING" ELSE readyState[i]]
    /\ closeCode' =
          [i \in Ids |->
              IF \E k \in 1..Len(users) : users[k].id = i /\ TimedOut(users[k], now)
              THEN "nocode" ELSE closeCode[i]]
    /\ LET sentTo == IdsOf(SelectSeq(users, LAMBDA u : Pinged(u, now) /\ u.id \notin bad))
       IN  out' = [i \in 1..Len(sentTo) |-> PingMsg(sentTo[i])]
    /\ probe' =
          [i \in Ids |->
              IF \E k \in 1..Len(users) : users[k].id = i /\ Pinged(users[k], now)
              THEN IF i \in bad THEN "unsent" ELSE "sent"
              ELSE probe[i]]
    /\ ev' = Event("tick", 0, NoFrame, "",
                   { u \in RegIds : Pinged(Get(u), now) /\ u \in bad })
    /\ pings' =
          [i \in Ids |->
              IF /\ i \notin bad
                 /\ \E k \in 1..Len(users) : users[k].id = i /\ Pinged(users[k], now)
              THEN pings[i] + 1 ELSE pings[i]]
    /\ UNCHANGED <<now, arrivals, lefts>>

\* time passes to the next observed instant, never past a due tick
Advance(t) ==
    /\ t > now
    /\ t <= nextTick
    /\ now' = t
    /\ out' = <<>>
    /\ ev' = Event("advance", 0, NoFrame, "", {})
    /\ UNCHANGED <<users, readyState, closeCode, nextTick, probe, arrivals,
                    pings, lefts>>

\* the frames the registry counts: the sum of messageCount over its entries
RECURSIVE Counted(_)
Counted(reg) ==
    IF reg = <<>> THEN 0 ELSE Head(reg).messageCount + Counted(Tail(reg))

\* the frame id is about to send keeps that count within cap
Budget(id, cap) ==
    Has(id) => Counted(SetUser(users, RateLimit(Get(id), now))) <= cap

\* the observer of the frame rate
LogArrival(id) == arrivals' = [arrivals EXCEPT ![id] = Logged(@, now)]

----------------------------------------------------------------------------
\* Spec: the relay under the clock, over a transport whose sends do not raise.

Next ==
    \/ \E id \in Peers : Upgrade(id)
    \/ \E id \in Peers : OnOpen(id, {})
    \/ \E id \in Peers, f \in BeatFrames :
          Budget(id, MaxFrames) /\ OnMessage(id, f, {}) /\ UNCHANGED arrivals
    \/ \E id \in Peers : OnClose(id, {})
    \/ Tick({})
    \/ \E t \in BeatTimes : Advance(t)

Spec == Init /\ [][Next]_vars

\* SpecRoom: the connections and their rooms, at one instant.

NextRoom ==
    \/ \E id \in Ids : Upgrade(id)
    \/ \E id \in Ids : OnOpen(id, {})
    \/ \E id \in Ids, f \in RoomFrames :
          Budget(id, MaxFrames) /\ OnMessage(id, f, {}) /\ UNCHANGED arrivals
    \/ \E id \in Ids : OnClose(id, {})

SpecRoom == Init /\ [][NextRoom]_vars

\* SpecFrames: frames of every shape, at one instant.

NextFrames ==
    \/ \E id \in Peers : Upgrade(id)
    \/ \E id \in Peers : OnOpen(id, {})
    \/ \E id \in Peers, f \in Frames :
          Budget(id, MaxFrames) /\ OnMessage(id, f, {}) /\ UNCHANGED arrivals
    \/ \E id \in Peers : OnClose(id, {})

SpecFrames == Init /\ [][NextFrames]_vars

\* SpecFault: the connections and their rooms over a transport whose sends
\* may raise.

NextFault ==
    \/ \E id \in Ids : Upgrade(id)
    \/ \E id \in Ids : \E bad \in Faults(id) : OnOpen(id, bad)
    \/ \E id \in Ids, f \in FaultFrames : \E bad \in Faults(id) :
          Budget(id, MaxFrames) /\ OnMessage(id, f, bad) /\ UNCHANGED arrivals
    \/ \E id \in Ids : \E bad \in Faults(id) : OnClose(id, bad)

SpecFault == Init /\ [][NextFault]_vars

\* SpecRate: one connection sending frames up to and beyond the rate limit,
\* observed around the boundaries of its rate windows.

NextRate ==
    \/ Upgrade(1)
    \/ OnOpen(1, {})
    \/ \E f \in RateFrames :
          /\ Budget(1, MAX_MESSAGES_PER_WINDOW + MaxOver)
          /\ OnMessage(1, f, {})
          /\ LogArrival(1)
    \/ OnClose(1, {})
    \/ \E t \in RateTimes : Advance(t)

SpecRate == Init /\ [][NextRate]_vars

\* SpecLate: the connections and their rooms at one instant, with events
\* delivered late: a frame or a second close event for a socket whose close
\* event has already been handled.

NextLate ==
    \/ \E id \in Peers : Upgrade(id)
    \/ \E id \in Peers : OnOpen(id, {})
    \/ \E id \in Peers, f \in BeatFrames :
          Budget(id, MaxFrames) /\ OnMessage(id, f, {}) /\ UNCHANGED arrivals
    \/ \E id \in Peers : OnClose(id, {})
    \/ \E id \in Peers : CloseAgain(id)
    \/ \E id \in Peers, f \in BeatFrames : LateMessage(id, f) /\ UNCHANGED arrivals

SpecLate == Init /\ [][NextLate]_vars

\* SpecBeat: the heartbeat alone.  The connections are accepted before the
\* clock moves and send PONGs only, in time, late or not at all.

NextBeat ==
    \/ \E id \in Peers : now = 0 /\ Upgrade(id)
    \/ \E id \in Peers : now = 0 /\ OnOpen(id, {})
    \/ \E id \in Peers :
          Budget(id, MaxFrames) /\ OnMessage(id, Pong, {}) /\ UNCHANGED arrivals
    \/ \E id \in Peers : OnClose(id, {})
    \/ Tick({})
    \/ \E t \in BeatTimes : Advance(t)

SpecBeat == Init /\ [][NextBeat]_vars

\* SpecPing: the heartbeat over a transport on which the send of a PING may
\* raise, for at most one socket in a tick; one tick less than SpecDrain.

PingFaults ==
    { {} } \cup { {r} : r \in { r \in RegIds : readyState[r] = "OPEN" } }

NextPing ==
    \/ \E id \in Peers : now = 0 /\ Upgrade(id)
    \/ \E id \in Peers : now = 0 /\ OnOpen(id, {})
    \/ \E id \in Peers :
          Budget(id, MaxPongs) /\ OnMessage(id, Pong, {}) /\ UNCHANGED arrivals
    \/ \E id \in Peers : OnClose(id, {})
    \/ \E bad \in PingFaults : Tick(bad)
    \/ \E t \in Rounds(MaxTicks - 1) : Advance(t)

SpecPing == Init /\ [][NextPing]_vars

\* SpecTouch: JOINs, PONGs and closes around the first tick, by connections
\* accepted before the clock moves.

NextTouch ==
    \/ \E id \in Peers : now = 0 /\ Upgrade(id)
    \/ \E id \in Peers : now = 0 /\ OnOpen(id, {})
    \/ \E id \in Peers, f \in BeatFrames :
          Budget(id, MaxTouch) /\ OnMessage(id, f, {}) /\ UNCHANGED arrivals
    \/ \E id \in Peers : OnClose(id, {})
    \/ Tick({})
    \/ \E t \in Rounds(MaxTicks - 2) : Advance(t)

SpecTouch == Init /\ [][NextTouch]_vars

\* SpecDrain: the relay from tick to tick, long enough for a tick to find a
\* socket that an earlier tick closed and whose close event is still to
\* come.  The connections send JOINs only and never answer a PING.

NextDrain ==
    \/ \E id \in Peers : Upgrade(id)
    \/ \E id \in Peers : OnOpen(id, {})
    \/ \E id \in Peers :
          Budget(id, MaxTouch) /\ OnMessage(id, Alice, {}) /\ UNCHANGED arrivals
    \/ \E id \in Peers : OnClose(id, {})
    \/ Tick({})
    \/ \E t \in TickTimes : Advance(t)

SpecDrain == Init /\ [][NextDrain]_vars

----------------------------------------------------------------------------
\* Vocabulary of the properties: the registry before and after a step, and
\* the requirements of the specification stated on their own terms.

In(reg, id) == \E i \in 1..Len(reg) : reg[i].id = id
Of(reg, id) == reg[CHOOSE i \in 1..Len(reg) : reg[i].id = id]

\* the step is socket.onmessage of c, and the frame passed the rate limiter
Admitted(c) ==
    /\ ev'.op = "message" /\ ev'.id = c
    /\ In(users, c) /\ In(users', c)
    /\ Of(users', c).messageCount <= 20

\* a field of a JOIN the specification accepts: a string of 1 to 50 characters
GoodField(v) == v.t = "string" /\ v.len >= 1 /\ v.len <= 50

GoodJoin(f) ==
    f.k = "object" /\ f.type = "JOIN" /\ GoodField(f.name) /\ GoodField(f.room)

\* how many messages of the last handler equal m
Copies(sent, m) == Cardinality({ i \in 1..Len(sent) : sent[i] = m })

\* how many of the logged arrivals of id fall at or after instant t
Since(log, t) == Cardinality({ i \in 1..Len(log) : log[i] >= t })

----------------------------------------------------------------------------
\* C1: a connection that was sent a PING by a tick and sends no PONG within
\* PONG_TIMEOUT of it has its transport closed by the next tick, whatever it
\* does after the timeout (a PONG later than PONG_TIMEOUT included).
\* probe[c] being "sent" or "late" says exactly that: a PING went out and
\* no PONG arrived within PONG_TIMEOUT of it.
C1_SilentConnectionClosedByNextTick ==
    [][\A c \in Ids :
          (/\ nextTick' # nextTick
           /\ In(users, c)
           /\ readyState[c] = "OPEN"
           /\ probe[c] \in {"sent", "late"})
          => readyState'[c] = "CLOSING"]_vars

----------------------------------------------------------------------------
\* C2 as stated: whenever 21 frames of a connection arrive within any
\* interval of 10000 ms, the connection is closed with code 1008.
C2_RollingWindow ==
    \A c \in Ids :
        (/\ Len(arrivals[c]) = 21
         /\ arrivals[c][21] - arrivals[c][1] <= 10000)
        => closeCode[c] = "1008"

\* C2 amended: whenever more than 20 frames of a connection arrive within
\* one window of the limiter (at or after its windowStart, before a frame
\* arriving more than 10000 ms after windowStart starts the next window),
\* close(1008) has been called on it.
C2_FixedWindow ==
    \A c \in Ids :
        (In(users, c) /\ Since(arrivals[c], Of(users, c).windowStart) > 20)
        => closeCode[c] = "1008"

\* a connection closed for 21 frames in a window that is not its first
C2_FixedWindow_Witness ==
    /\ In(users, 1)
    /\ Of(users, 1).windowStart > 0
    /\ Since(arrivals[1], Of(users, 1).windowStart) > 20
    /\ closeCode[1] = "1008"

----------------------------------------------------------------------------
\* C3: on each inbound frame the window is restarted (counter 0, windowStart
\* now) iff now - windowStart > 10000, the counter is then incremented, and
\* the frame is parsed and dispatched iff the incremented counter is <= 20;
\* so the frame that is the k-th arrival of its window is processed iff
\* k <= 20, and the 21st has close(1008) called and changes nothing else.
C3_AdmitRule ==
    [][\A c \in Ids :
          (ev'.op = "message" /\ ev'.id = c /\ In(users, c))
          => LET u == Of(users, c)
                 v == Of(users', c)
                 restart == now - u.windowStart > 10000
                 k == Since(arrivals'[c], v.windowStart)
             IN  /\ In(users', c)
                 /\ v.windowStart = IF restart THEN now ELSE u.windowStart
                 /\ v.messageCount = (IF restart THEN 0 ELSE u.messageCount) + 1
                 /\ (ev'.res # "rejected") <=> (v.messageCount <= 20)
                 /\ (k <= 20) <=> (v.messageCount <= 20)
                 /\ k <= 20 => k = v.messageCount
                 /\ v.messageCount > 20 =>
                        /\ closeCode'[c] = "1008"
                        /\ readyState'[c] # "OPEN"
                        /\ v.name = u.name /\ v.room = u.room
                        /\ v.awaitingPong = u.awaitingPong
                        /\ out' = <<>>]_vars

\* the 21st frame of a restarted window has just been rejected
C3_AdmitRule_Witness ==
    /\ ev.op = "message" /\ ev.res = "rejected"
    /\ In(users, 1)
    /\ Of(users, 1).messageCount = 21
    /\ Of(users, 1).windowStart = 10001

----------------------------------------------------------------------------
\* C4: once close(1008) has been called on a connection, no later frame of
\* it changes its name, room or awaitingPong, or sends a notification.
C4_NoFrameProcessedAfterReject ==
    [][\A c \in Ids :
          (/\ closeCode[c] = "1008"
           /\ ev'.op = "message" /\ ev'.id = c
           /\ In(users, c))
          => /\ In(users', c)
             /\ Of(users', c).name = Of(users, c).name
             /\ Of(users', c).room = Of(users, c).room
             /\ Of(users', c).awaitingPong = Of(users, c).awaitingPong
             /\ out' = <<>>]_vars

----------------------------------------------------------------------------
\* C5: an admitted JOIN with good fields from an unjoined connection c sets
\* c's name and room to the frame's, and sends exactly one userJoined with
\* c's id, name and room to each other registered connection that is OPEN
\* and in c's new room, and nothing to anyone else.
JoinAudience(c, room) ==
    { r \in Ids \ {c} :
        In(users, r) /\ readyState[r] = "OPEN" /\ Of(users, r).room = room }

C5_JoinAnnouncedToRoom ==
    [][\A c \in Ids :
          (/\ Admitted(c)
           /\ GoodJoin(ev'.frame)
           /\ Of(users, c).name = Null /\ Of(users, c).room = Null)
          => LET f == ev'.frame
                 m(r) == [to |-> r, type |-> "userJoined",
                          user |-> [id |-> c, name |-> f.name, room |-> f.room]]
             IN  /\ Of(users', c).name = f.name
                 /\ Of(users', c).room = f.room
                 /\ \A r \in JoinAudience(c, f.room) : Copies(out', m(r)) = 1
                 /\ \A i \in 1..Len(out') :
                        out'[i].to \in JoinAudience(c, f.room) /\ out'[i] = m(out'[i].to)]_vars

\* connection 3 joined a room holding one open connection while another
\* open connection sits in a different room: one notification went out
C5_JoinAnnouncedToRoom_Witness ==
    /\ ev.op = "message" /\ ev.id = 3 /\ ev.res = "joined"
    /\ Len(out) = 1 /\ out[1].type = "userJoined" /\ out[1].user.id = 3
    /\ \E r \in Ids \ {3} :
          /\ In(users, r) /\ readyState[r] = "OPEN"
          /\ Of(users, r).room # Null
          /\ Of(users, r).room # Of(users, 3).room

----------------------------------------------------------------------------
\* C6: an admitted frame that is unparseable, a JOIN with a bad field, or of
\* an unknown type leaves the connection registered and open, its name, room
\* and awaitingPong as they were, every other connection as it was, and
\* sends nothing.
Inert(f) ==
    \/ f.k = "garbage"
    \/ f.k = "object" /\ f.type = "JOIN" /\ ~GoodJoin(f)
    \/ f.k = "object" /\ f.type \notin {"JOIN", "PONG"}

C6_BadFrameChangesNothing ==
    [][\A c \in Ids :
          (Admitted(c) /\ Inert(ev'.frame))
          => /\ readyState' = readyState
             /\ closeCode' = closeCode
             /\ Len(users') = Len(users)
             /\ Of(users', c).name = Of(users, c).name
             /\ Of(users', c).room = Of(users, c).room
             /\ Of(users', c).awaitingPong = Of(users, c).awaitingPong
             /\ \A i \in 1..Len(users) : users[i].id # c => users'[i] = users[i]
             /\ out' = <<>>]_vars

\* a JOIN whose room has 51 characters was just handled, among peers
C6_BadFrameChangesNothing_Witness ==
    /\ ev.op = "message" /\ ev.res = "invalid_join"
    /\ ev.frame.room.t = "string" /\ ev.frame.room.len = 51
    /\ Len(users) >= 2
    /\ In(users, ev.id) /\ Of(users, ev.id).room = Null

----------------------------------------------------------------------------
\* C7: once a connection's name and room are set, no later frame changes
\* them and no second userJoined is sent for it.
C7_NameAndRoomSetOnce ==
    [][\A c \in Ids :
          (In(users, c) /\ Of(users, c).name # Null /\ In(users', c))
          => /\ Of(users', c).name = Of(users, c).name
             /\ Of(users', c).room = Of(users, c).room
             /\ \A i \in 1..Len(out') :
                    ~(out'[i].type = "userJoined" /\ out'[i].user.id = c)]_vars

----------------------------------------------------------------------------
\* C8: when a connection that never joined closes, no userLeft is sent to
\* anyone.
C8_UnjoinedLeavesSilently ==
    [][\A c \in Ids :
          (/\ ev'.op = "close" /\ ev'.id = c
           /\ In(users, c)
           /\ Of(users, c).name = Null /\ Of(users, c).room = Null)
          => \A i \in 1..Len(out') : out'[i].type # "userLeft"]_vars

----------------------------------------------------------------------------
\* C9: when the send of a userJoined or userLeft to one recipient raises,
\* every other eligible recipient (open, in the room of the connection that
\* joined or left) still gets the notification.
C9_FanOutSurvivesFailedSend ==
    [][\A c \in Ids :
          (/\ ev'.op \in {"message", "close"} /\ ev'.id = c
           /\ ev'.raised # {}
           /\ In(users, c))
          => LET room == IF ev'.op = "close" THEN Of(users, c).room
                                             ELSE Of(users', c).room
             IN  \A r \in Ids \ (ev'.raised \cup {c}) :
                    (/\ In(users, r) /\ readyState'[r] = "OPEN"
                     /\ room # Null
                     /\ Of(users, r).room = room)
                    => \E i \in 1..Len(out') : out'[i].to = r]_vars

----------------------------------------------------------------------------
\* C10: a connection is in the registry exactly from its open event to its
\* close event: after the close handler has run its id is absent, whatever
\* the cause of the close and also when a send of its userLeft raised.
C10_RegistryFollowsTransport ==
    \A c \in Ids : In(users, c) <=> readyState[c] \in {"OPEN", "CLOSING"}

----------------------------------------------------------------------------
\* C11: close handling is idempotent.  Over any sequence of events the
\* userLeft of a connection is fanned out at most once, and a close event
\* for a connection that is already closed and removed raises nothing,
\* sends nothing and leaves the registry and every socket as they were.
C11_CloseIsIdempotent ==
    /\ [](\A c \in Ids : lefts[c] <= 1)
    /\ [][\A c \in Ids :
             (/\ ev'.op = "close" /\ ev'.id = c
              /\ readyState[c] = "CLOSED" /\ ~In(users, c))
             => /\ out' = <<>>
                /\ ev'.raised = {}
                /\ lefts' = lefts
                /\ UNCHANGED <<users, readyState, closeCode, probe, pings>>]_vars

\* a second close event has been handled for a connection whose userLeft
\* went out at its first one, while a joined connection is open
C11_CloseIsIdempotent_Witness ==
    /\ ev.op = "close" /\ ev.res = "absent"
    /\ readyState[ev.id] = "CLOSED" /\ lefts[ev.id] = 1
    /\ \E r \in Ids : In(users, r) /\ readyState[r] = "OPEN" /\ Of(users, r).room # Null

----------------------------------------------------------------------------
\* C12: the roster sent to a connection that opens has exactly one entry
\* {id, name, room} for each connection that is in the registry with a
\* non-null room when it is sent, carrying that connection's current name
\* and room, and no entry for any other connection (unjoined or removed).
C12_RosterListsJoined ==
    [][\A c \in Ids :
          (ev'.op = "open" /\ ev'.id = c)
          => /\ Len(out') = 1
             /\ out'[1].type = "userList" /\ out'[1].to = c
             /\ LET list == out'[1].users
                IN  /\ \A r \in Ids :
                          (In(users', r) /\ Of(users', r).room # Null)
                          => /\ Cardinality({ i \in 1..Len(list) : list[i].id = r }) = 1
                             /\ \E i \in 1..Len(list) :
                                   list[i] = [id |-> r,
                                              name |-> Of(users', r).name,
                                              room |-> Of(users', r).room]
                    /\ \A i \in 1..Len(list) :
                          /\ In(users', list[i].id)
                          /\ Of(users', list[i].id).room # Null]_vars

\* a roster with the entry of the one joined connection went to a connection
\* that opened (registered itself, unjoined) after another had been removed
C12_RosterListsJoined_Witness ==
    /\ ev.op = "open"
    /\ Len(out) = 1 /\ out[1].type = "userList"
    /\ Len(out[1].users) = 1
    /\ In(users, ev.id) /\ Of(users, ev.id).room = Null
    /\ out[1].users[1].id # ev.id
    /\ \E r \in Ids : readyState[r] = "CLOSED" /\ lefts[r] = 1

----------------------------------------------------------------------------
\* C13: in every reachable state each connection of the registry has its
\* name and its room either both null or both non-null.
C13_NameAndRoomTogether ==
    \A i \in 1..Len(users) : (users[i].name = Null) <=> (users[i].room = Null)

\* the registry holds a joined connection and an unjoined one whose JOIN,
\* valid in its name only, has just been handled
C13_NameAndRoomTogether_Witness ==
    /\ ev.op = "message" /\ ev.res = "invalid_join"
    /\ GoodField(ev.frame.name) /\ ~GoodField(ev.frame.room)
    /\ In(users, ev.id) /\ Of(users, ev.id).name = Null
    /\ \E r \in Ids : In(users, r) /\ Of(users, r).name # Null /\ Of(users, r).room # Null

----------------------------------------------------------------------------
\* C14: at most one PING is outstanding per connection.  With ticks
\* PING_INTERVAL apart, a tick never sends a PING to a connection whose
\* previous PING went out and has had no PONG since.
C14_OnePingOutstanding ==
    [][\A c \in Ids :
          (nextTick' # nextTick /\ probe[c] = "sent")
          => \A i \in 1..Len(out') : ~(out'[i].type = "PING" /\ out'[i].to = c)]_vars

\* the second tick has run over a connection whose PING of the first tick
\* had no PONG: it was closed, not pinged again, while the tick pinged another
C14_OnePingOutstanding_Witness ==
    /\ ev.op = "tick" /\ now = 2 * PING_INTERVAL
    /\ \E c \in Ids :
          /\ probe[c] = "sent" /\ pings[c] = 1
          /\ readyState[c] = "CLOSING" /\ closeCode[c] = "nocode"
          /\ \A i \in 1..Len(out) : out[i].to # c
    /\ \E i \in 1..Len(out) : out[i].type = "PING"

----------------------------------------------------------------------------
\* C15: over all sequences of open and close events the registry never
\* holds two entries with the same id, an id whose close event was handled
\* is not found in it, and a frame that arrives for an id that is not in the
\* registry is dropped: nothing is sent and nothing changes.
C15_IdsUniqueAndGoneAfterClose ==
    /\ [](\A i, j \in 1..Len(users) : users[i].id = users[j].id => i = j)
    /\ [](\A c \in Ids : readyState[c] = "CLOSED" => ~In(users, c))
    /\ [][\A c \in Ids :
             (ev'.op = "message" /\ ev'.id = c /\ ~In(users, c))
             => /\ ev'.res = "unregistered"
                /\ out' = <<>>
                /\ UNCHANGED <<users, readyState, closeCode, probe, pings, lefts>>]_vars

\* a frame has been dropped that arrived for a connection which had been
\* registered and was removed, while another connection is registered
C15_IdsUniqueAndGoneAfterClose_Witness ==
    /\ ev.op = "message" /\ ev.res = "unregistered"
    /\ readyState[ev.id] = "CLOSED" /\ lefts[ev.id] = 1
    /\ \E r \in Ids \ {ev.id} : In(users, r)

----------------------------------------------------------------------------
\* C16: when a joined connection c closes, one userLeft carrying c's id goes
\* to exactly the registered connections that are open in c's room at that
\* time, never to c itself, and each of these sends happens after c has been
\* removed from the registry: the registry the fan-out runs on does not
\* list c.
C16_LeftSentAfterRemoval ==
    [][\A c \in Ids :
          (/\ ev'.op = "close" /\ ev'.id = c
           /\ In(users, c) /\ Of(users, c).room # Null)
          => /\ \A r \in Ids :
                   Copies(out', LeftMsg(r, c)) =
                      IF /\ r # c /\ In(users, r) /\ readyState'[r] = "OPEN"
                         /\ Of(users, r).room = Of(users, c).room
                      THEN 1 ELSE 0
             /\ \A i \in 1..Len(out') : out'[i].type = "userLeft" /\ out'[i].id = c
             /\ out' # <<>> => ev'.res = "delisted"]_vars

----------------------------------------------------------------------------
\* C17: when the send of a PING raises during a tick, the tick does not
\* close that connection and goes on with the others: every other open
\* connection that is not timed out gets its PING.  The connection is left
\* with awaitingPong true and lastPing at the time of the tick, so if it
\* stays open and sends no PONG the next tick closes it.
C17_FailedPingCountsAsSent ==
    /\ [][\A c \in Ids :
             (nextTick' # nextTick /\ c \in ev'.raised)
             => /\ readyState'[c] = "OPEN" /\ closeCode'[c] = closeCode[c]
                /\ In(users', c)
                /\ Of(users', c).awaitingPong
                /\ Of(users', c).lastPing = now
                /\ \A r \in Ids \ ev'.raised :
                      (/\ In(users, r) /\ readyState[r] = "OPEN"
                       /\ ~(/\ Of(users, r).awaitingPong
                             /\ now - Of(users, r).lastPing > 10000))
                      => Copies(out', PingMsg(r)) = 1]_vars
    /\ [][\A c \in Ids :
             (/\ nextTick' # nextTick
              /\ probe[c] = "unsent"
              /\ In(users, c) /\ readyState[c] = "OPEN")
             => readyState'[c] = "CLOSING"]_vars

\* the second tick has closed a connection whose PING of the first tick
\* raised and which sent no PONG, and another connection was pinged
C17_FailedPingCountsAsSent_Witness ==
    /\ ev.op = "tick" /\ now = 2 * PING_INTERVAL
    /\ \E c \in Ids :
          /\ probe[c] = "unsent" /\ pings[c] = 0
          /\ readyState[c] = "CLOSING" /\ closeCode[c] = "nocode"
          /\ \E r \in Ids \ {c} : pings[r] >= 1

----------------------------------------------------------------------------
\* C18: the liveness state is touched only by the tick and by the handling
\* of a PONG.  An admitted PONG sets the sender's awaitingPong to false,
\* joined or not, and changes nothing else: not its name, room or lastPing,
\* not the registry's membership or another entry, no socket, and it sends
\* nothing.  The handling of a JOIN and of a close never changes the
\* awaitingPong or lastPing of any connection.
C18_LivenessTouchedByTickAndPong ==
    /\ [][\A c \in Ids :
             (Admitted(c) /\ ev'.frame.k = "object" /\ ev'.frame.type = "PONG")
             => /\ ~Of(users', c).awaitingPong
                /\ Of(users', c).name = Of(users, c).name
                /\ Of(users', c).room = Of(users, c).room
                /\ Of(users', c).lastPing = Of(users, c).lastPing
                /\ IdsOf(users') = IdsOf(users)
                /\ \A r \in Ids \ {c} : In(users, r) => Of(users', r) = Of(users, r)
                /\ out' = <<>>
                /\ UNCHANGED <<readyState, closeCode>>]_vars
    /\ [][(\/ ev'.op = "close"
            \/ (ev'.op = "message" /\ ev'.frame.k = "object" /\ ev'.frame.type = "JOIN"))
           => \A r \in Ids :
                 (In(users, r) /\ In(users', r))
                 => /\ Of(users', r).awaitingPong = Of(users, r).awaitingPong
                    /\ Of(users', r).lastPing = Of(users, r).lastPing]_vars

\* an unjoined connection has answered its PING with a PONG while another
\* connection, joined, is still awaiting its own
C18_LivenessTouchedByTickAndPong_Witness ==
    /\ ev.op = "message" /\ ev.res = "pong"
    /\ In(users, ev.id)
    /\ Of(users, ev.id).name = Null
    /\ ~Of(users, ev.id).awaitingPong
    /\ probe[ev.id] \in {"answered", "late"}
    /\ \E r \in Ids \ {ev.id} :
          In(users, r) /\ Of(users, r).name # Null /\ Of(users, r).awaitingPong

----------------------------------------------------------------------------
\* C19: a connection that answers every PING with a PONG before the next
\* tick is never closed by the heartbeat: a tick that finds an open
\* connection with no PING left without a PONG leaves its socket open and
\* sends it the next PING.
C19_ResponsiveNeverClosed ==
    [][\A c \in Ids :
          (/\ nextTick' # nextTick
           /\ In(users, c) /\ readyState[c] = "OPEN"
           /\ probe[c] \notin {"sent", "unsent"})
          => /\ readyState'[c] = "OPEN"
             /\ closeCode'[c] = closeCode[c]
             /\ Copies(out', PingMsg(c)) = 1]_vars

\* a connection is open after the second tick, pinged by both ticks, having
\* answered the first PING in between
C19_ResponsiveNeverClosed_Witness ==
    /\ ev.op = "tick" /\ now = 2 * PING_INTERVAL
    /\ \E c \in Ids :
          /\ In(users, c) /\ readyState[c] = "OPEN"
          /\ pings[c] = 2 /\ probe[c] = "sent"
          /\ Of(users, c).lastPing = now

----------------------------------------------------------------------------
\* C20: no PING, userJoined or userLeft is sent to a connection whose
\* socket is not OPEN when it is sent.  From the server's socket.close() to
\* the close event the connection is skipped by ticks and by the fan-outs of
\* other connections' JOINs and closes, and a tick neither pings it nor
\* closes it again nor touches its entry.
C20_OnlyOpenSocketsAreSentTo ==
    /\ [][\A i \in 1..Len(out') :
             out'[i].type \in {"PING", "userJoined", "userLeft"}
             => /\ readyState[out'[i].to] = "OPEN"
                /\ readyState'[out'[i].to] = "OPEN"]_vars
    /\ [][\A c \in Ids :
             (nextTick' # nextTick /\ readyState[c] = "CLOSING")
             => /\ readyState'[c] = "CLOSING"
                /\ closeCode'[c] = closeCode[c]
                /\ In(users, c) => (In(users', c) /\ Of(users', c) = Of(users, c))
                /\ \A i \in 1..Len(out') : out'[i].to # c]_vars

\* the third tick has passed over a joined connection that the second tick
\* closed and whose close event has not come, and has pinged another
C20_OnlyOpenSocketsAreSentTo_Witness ==
    /\ ev.op = "tick" /\ now = 3 * PING_INTERVAL
    /\ \E c \in Ids :
          /\ readyState[c] = "CLOSING" /\ closeCode[c] = "nocode"
          /\ In(users, c) /\ Of(users, c).room # Null
          /\ Of(users, c).lastPing = PING_INTERVAL
          /\ \A i \in 1..Len(out) : out[i].to # c
    /\ \E i \in 1..Len(out) : out[i].type = "PING"

====
